---- MODULE Spec2Model ----
(***************************************************************************)
(* Model of perplexity-2api-python: the ConversationManager                *)
(* (app/providers/perplexity_provider.py, lines 26-133) and the            *)
(* stream_generator of PerplexityProvider.chat_completion (lines 142-504). *)
(*                                                                         *)
(* Texts are sequences of string pieces (a decoded snapshot is a sequence  *)
(* of one-character strings), uuid4 values are fresh integer tokens,       *)
(* time.time() is a logical clock read once per resolve call.              *)
(***************************************************************************)
EXTENDS Integers, Sequences, FiniteSets, TLC

\* ConversationManager(max_turns, max_conversations): the constructor's
\* parameters (50 and 10 in PerplexityProvider.__init__), scaled down.
max_turns == 2
max_conversations == 2
\* Number of get_or_create_conversation calls explored (clock readings).
MaxClock == 5
\* Longest decoded snapshot, upstream lines per response, chat requests.
MaxLen == 2
MaxLines == 2
MaxRequests == 2
\* Characters (of one to two bytes) in the body of a chunked response.
MaxChars == 3
MaxPieces == 2

\* Python's None (backend_uuid absent, conversation_id absent).
None == "None"
NoneId == "<None>"
\* A request body without the "conversation_id" field.
Absent == "<absent>"
\* What the "conversation_id" field of a request body can hold.
RequestFields == {Absent, NoneId, "", "default", "a"}
\* conversation_id arguments the callers pass.
ConvIdArgs == {"default", "a", "b"}
\* backend identifiers an upstream response can carry.
BackendIds == {"b1"}
\* Concurrent asyncio tasks, each making one call of the manager.
Tasks == {1, 2, 3, 4}
\* The identifiers those tasks use.
TaskIds == {"", "default", "a", "b"}
\* conversation_id values of chat requests.
ChatIds == {"", "default", "a"}
\* Upstream response status codes.
Statuses == {200, 403, 422}
\* Characters of the decoded texts.
Chars == {"x", "y"}

VARIABLES
    conversations,  \* self.conversations: the OrderedDict, oldest first
    lock,           \* self.lock: 0 when free, else the task holding it
    clock,          \* the last value time.time() returned
    uuids,          \* how many uuid4 tokens have been issued
    pc,             \* per task: "idle", "locked" (inside async with), "done"
    ret,            \* per task: the call it made and the dict returned
    removed,        \* identifiers whose session a task's call evicted or reset
    last,           \* the last completed manager call, with the store before it
    prevReset,      \* the session reset by the call completed just before `last`
    streak,         \* n when every call so far was resolve of one identifier, else -1
    spc,            \* the chat request: "idle", "created", "streaming", "done"
    exit_path,      \* how stream_generator ended: "status", "exception", "end"
    nreq,           \* chat requests made so far
    conv_info,      \* chat_completion's conversation_id and conv_info
    payload,        \* the conversation fields of the upstream payload
    status_code,    \* response.status_code, 0 before the response
    upstream_backend, \* the backend identifier the upstream response carries
    nlines,         \* upstream lines consumed
    last_full_text, \* stream_generator's last_full_text
    has_content,    \* stream_generator's has_content
    frames,         \* what stream_generator has yielded
    snaps,          \* the snapshots decoded from the response's lines (history)
    line_str,       \* the upstream line the loop read last (history)
    body,           \* the bytes of a response body, as the upstream sends them
    delivered,      \* how many of them aiter_content() has handed over
    buffer,         \* stream_generator's buffer
    line_log,       \* the lines taken off the buffer, in order (history)
    returned,       \* per thread_uuid: the identifier it was issued for and how
                    \* many resolve calls have returned it (history)
    held,           \* the thread_uuid the caller of the last update had resolved
    resolved,       \* per identifier: the thread_uuid its last resolve returned
    req             \* per concurrent chat request: where it is and its locals

managerVars == <<conversations, lock, clock, uuids>>
taskVars == <<pc, ret, removed>>
historyVars == <<last, prevReset, streak>>
streamVars == <<spc, exit_path, nreq, conv_info, payload, status_code,
                upstream_backend, nlines, last_full_text, has_content, frames, snaps,
                line_str>>
chunkVars == <<body, delivered, buffer, line_log>>
auditVars == <<returned, held, resolved>>
requestVars == <<req>>
vars == <<managerVars, taskVars, historyVars, streamVars, chunkVars, auditVars,
          requestVars>>

----------------------------------------------------------------------------
\* The OrderedDict self.conversations as a sequence of sessions.

Keys(convs) == {convs[i].cid : i \in DOMAIN convs}

Has(convs, cid) == cid \in Keys(convs)

Index(convs, cid) == CHOOSE i \in DOMAIN convs : convs[i].cid = cid

Get(convs, cid) == convs[Index(convs, cid)]

Without(convs, cid) == SelectSeq(convs, LAMBDA e : e.cid # cid)

\* OrderedDict.move_to_end(key)
MoveToEnd(convs, cid) == Append(Without(convs, cid), Get(convs, cid))

\* `if not conversation_id: conversation_id = "default"`
\* Mutant of Normalize: only None is replaced.
NormalizeNoneOnly(conversation_id) ==
    IF conversation_id = NoneId THEN "default" ELSE conversation_id

\* `if not conversation_id: conversation_id = "default"`
Normalize(conversation_id) ==
    IF conversation_id = NoneId \/ conversation_id = "" THEN "default" ELSE conversation_id

\* Mutants of ShouldRotate: `>` for `>=`, and a check that never fires.
ShouldRotateLate(conv) == conv.turn_count > max_turns

ShouldRotateNever(conv) == FALSE

\* `conv["turn_count"] >= self.max_turns`
ShouldRotate(conv) == conv.turn_count >= max_turns

\* Mutant of Touch: the turn increment is lost.
TouchNoIncrement(conv, now) == [conv EXCEPT !.last_used = now]

\* `conv["turn_count"] += 1; conv["last_used"] = now`
Touch(conv, now) == [conv EXCEPT !.turn_count = @ + 1, !.last_used = now]

\* Mutant of EvictOldest: `>` for `>=`.
RECURSIVE EvictOldestLate(_)
EvictOldestLate(convs) ==
    IF Len(convs) > max_conversations
    THEN EvictOldestLate(Tail(convs))
    ELSE convs

\* `while len(self.conversations) >= self.max_conversations: popitem(last=False)`
RECURSIVE EvictOldest(_)
EvictOldest(convs) ==
    IF Len(convs) >= max_conversations /\ Len(convs) > 0
    THEN EvictOldest(Tail(convs))
    ELSE convs

\* Mutant of Rotate: the backend identifier of the old thread is kept.
RotateKeepsBackend(conv, fresh, now) ==
    [conv EXCEPT !.thread_uuid = fresh, !.turn_count = 0, !.last_used = now]

\* Mutant of Rotate: the turn counter is not reset.
RotateKeepsCount(conv, fresh, now) ==
    [conv EXCEPT !.thread_uuid = fresh, !.backend_uuid = None, !.last_used = now]

\* Mutant of Rotate: the thread identifier is not renewed.
RotateKeepsThread(conv, fresh, now) ==
    [conv EXCEPT !.backend_uuid = None, !.turn_count = 0, !.last_used = now]

\* The rotation of lines 58-62: a new thread in the same entry.
Rotate(conv, fresh, now) ==
    [conv EXCEPT !.thread_uuid = fresh,
                 !.backend_uuid = None,
                 !.turn_count = 0,
                 !.last_used = now]

NewSession(cid, thread_uuid, now) ==
    [cid |-> cid, thread_uuid |-> thread_uuid, backend_uuid |-> None,
     turn_count |-> 1, last_used |-> now]

\* The body of get_or_create_conversation under the lock: the new store, the
\* returned dict, and whether a uuid4 was drawn.  fresh is the next uuid4.
GetOrCreate(convs, conversation_id, now, fresh) ==
    LET cid == Normalize(conversation_id) IN
    IF Has(convs, cid)
    THEN LET i == Index(convs, cid)
             conv == convs[i]
         IN IF ShouldRotate(conv)
            THEN LET conv2 == Rotate(conv, fresh, now) IN
                 [convs |-> [convs EXCEPT ![i] = conv2],
                  result |-> [thread_uuid |-> conv2.thread_uuid,
                              backend_uuid |-> None,
                              is_new |-> TRUE, turn_count |-> 0],
                  drew |-> TRUE]
            ELSE LET conv2 == Touch(conv, now) IN
                 [convs |-> MoveToEnd([convs EXCEPT ![i] = conv2], cid),
                  result |-> [thread_uuid |-> conv2.thread_uuid,
                              backend_uuid |-> conv2.backend_uuid,
                              is_new |-> FALSE,
                              turn_count |-> conv2.turn_count],
                  drew |-> FALSE]
    ELSE [convs |-> Append(EvictOldest(convs), NewSession(cid, fresh, now)),
          result |-> [thread_uuid |-> fresh, backend_uuid |-> None,
                      is_new |-> TRUE, turn_count |-> 1],
          drew |-> TRUE]

\* Mutant of SetBackend: the update also counts as an access.
SetBackendTouches(convs, conversation_id, backend_uuid) ==
    IF Has(convs, conversation_id)
    THEN MoveToEnd([convs EXCEPT ![Index(convs, conversation_id)].backend_uuid =
                                      backend_uuid], conversation_id)
    ELSE convs

\* The body of update_backend_uuid under the lock.
SetBackend(convs, conversation_id, backend_uuid) ==
    IF Has(convs, conversation_id)
    THEN [convs EXCEPT ![Index(convs, conversation_id)].backend_uuid = backend_uuid]
    ELSE convs

\* Mutant of Delete: the entry is kept.
DeleteNothing(convs, conversation_id) == convs

\* Mutant of Delete: the sessions older than the entry go with it.
DeleteWithOlder(convs, conversation_id) ==
    IF Has(convs, conversation_id)
    THEN SubSeq(convs, Index(convs, conversation_id) + 1, Len(convs))
    ELSE convs

\* The body of reset_conversation under the lock.
Delete(convs, conversation_id) ==
    IF Has(convs, conversation_id) THEN Without(convs, conversation_id) ELSE convs

\* get_stats(): the fields the claims read.
GetStats ==
    [active_conversations |-> Len(conversations),
     max_conversations |-> max_conversations,
     max_turns_per_conversation |-> max_turns]

----------------------------------------------------------------------------
\* History bookkeeping (not program state).

NoResult == [thread_uuid |-> 0, backend_uuid |-> None, is_new |-> FALSE, turn_count |-> 0]

NoCall == [op |-> "none", arg |-> "", cid |-> "", backend |-> None,
           pre |-> <<>>, result |-> NoResult]

NoReset == [arg |-> "-", had |-> FALSE, thread_uuid |-> 0, turn_count |-> 0,
            backend_uuid |-> None]

\* What a reset call removed; NoReset for every other call.
ResetSummary(call) ==
    IF call.op # "reset" THEN NoReset
    ELSE [arg |-> call.arg,
          had |-> Has(call.pre, call.arg),
          thread_uuid |-> IF Has(call.pre, call.arg)
                          THEN Get(call.pre, call.arg).thread_uuid ELSE 0,
          turn_count |-> IF Has(call.pre, call.arg)
                         THEN Get(call.pre, call.arg).turn_count ELSE 0,
          backend_uuid |-> IF Has(call.pre, call.arg)
                           THEN Get(call.pre, call.arg).backend_uuid ELSE None]

----------------------------------------------------------------------------
\* The manager's methods called one after another (each call runs from
\* `async with self.lock:` to the release without a suspension point).

NoRet == [op |-> "none", cid |-> "", now |-> 0, result |-> NoResult, active |-> 0]

InitManager ==
    /\ conversations = <<>>
    /\ lock = 0
    /\ clock = 0
    /\ uuids = 0

InitTasks ==
    /\ pc = [p \in Tasks |-> "idle"]
    /\ ret = [p \in Tasks |-> NoRet]
    /\ removed = {}

InitHistory ==
    /\ last = NoCall
    /\ prevReset = NoReset
    /\ streak = 0

\* A JSON value found under "answer" or "text", by its shape `t`:
\*   "str"       a string starting with neither "[" nor "{": `text`
\*   "null", "num", "dict", "list"   a value that is not a string
\*               (a number other than 0, a non-empty object, the array `text`)
\*   "steps"     a string holding a JSON array: `steps`
\*   "badarray"  a string starting with "[" that json.loads rejects
\*   "obj_answer"      a string holding {"answer": <the string `text`>}
\*   "obj_answer_num"  a string holding {"answer": <a number>}
\*   "obj_chunks"      a string holding {"chunks": [<the strings `chunks`>]}
\*   "obj_empty"       a string holding an object with neither key
\*   "badobj"    a string starting with "{" that json.loads rejects
Value(t, text, steps, chunks) ==
    [t |-> t, text |-> text, steps |-> steps, chunks |-> chunks]

Str(text) == Value("str", text, <<>>, <<>>)

Shape(t) == Value(t, <<>>, <<>>, <<>>)

\* One upstream line: no data line ("noise"), the "[DONE]" sentinel, a
\* payload json.loads rejects ("unparsable"), or a parsed payload ("data"):
\* an object with the key "answer" or "text" and its value, an object with
\* neither ("none"), or a JSON value that is no container ("scalar").
Line(kind, key, value) == [kind |-> kind, key |-> key, value |-> value]

\* No line read yet.
NoLine == Line("none", "", Shape("null"))

NoConvInfo == [conversation_id |-> "", thread_uuid |-> 0, backend_uuid |-> None,
               is_new |-> FALSE, turn_count |-> 0]

NoPayload == [frontend_uuid |-> 0, is_related_query |-> FALSE,
              query_source |-> "", backend_uuid |-> None]

InitStream ==
    /\ spc = "idle"
    /\ exit_path = ""
    /\ nreq = 0
    /\ conv_info = NoConvInfo
    /\ payload = NoPayload
    /\ status_code = 0
    /\ upstream_backend = None
    /\ nlines = 0
    /\ last_full_text = <<>>
    /\ has_content = FALSE
    /\ frames = <<>>
    /\ snaps = <<>>
    /\ line_str = NoLine

\* No response body yet.
InitChunks ==
    /\ body = <<>>
    /\ delivered = 0
    /\ buffer = <<>>
    /\ line_log = <<>>

\* No thread_uuid returned yet, no update made.
InitAudit ==
    /\ returned = [t \in 1..MaxClock |-> [cid |-> "", count |-> 0]]
    /\ held = 0
    /\ resolved = [cid \in TaskIds |-> 0]

\* The chat requests in flight at once.
Requests == {1, 2}

\* A request the endpoint has received and chat_completion has not yet
\* resolved: no conv_info, no upstream session, the generator's locals as
\* lines 259-260 set them.
NoRequest == [pc |-> "new", thread_uuid |-> 0, session |-> "none",
              status_code |-> 0, exit_path |-> "", lines |-> <<>>,
              last_full_text |-> <<>>, has_content |-> FALSE, frames |-> <<>>]

InitRequests == req = [p \in Requests |-> NoRequest]

Init ==
    /\ InitManager
    /\ InitTasks
    /\ InitHistory
    /\ InitStream
    /\ InitChunks
    /\ InitAudit
    /\ InitRequests

Record(call, convs) ==
    /\ conversations' = convs
    /\ last' = call
    /\ prevReset' = ResetSummary(last)
    /\ UNCHANGED <<lock, taskVars, streamVars, chunkVars, requestVars>>

\* get_or_create_conversation, lines 43-103.
ResolveCall(conversation_id) ==
    /\ lock = 0
    /\ clock < MaxClock
    /\ LET now == clock + 1
           out == GetOrCreate(conversations, conversation_id, now, uuids + 1)
           cid == Normalize(conversation_id)
       IN /\ clock' = now
          /\ uuids' = IF out.drew THEN uuids + 1 ELSE uuids
          /\ streak' = IF streak >= 0 /\ (streak = 0 \/ last.cid = cid)
                       THEN streak + 1 ELSE -1
          /\ Record([op |-> "resolve", arg |-> conversation_id, cid |-> cid,
                     backend |-> None, pre |-> conversations,
                     result |-> out.result], out.convs)

Resolve(conversation_id) ==
    /\ ResolveCall(conversation_id)
    /\ UNCHANGED auditVars

\* update_backend_uuid, lines 105-110.
UpdateCall(conversation_id, backend_uuid) ==
    /\ lock = 0
    /\ Record([op |-> "update", arg |-> conversation_id, cid |-> conversation_id,
               backend |-> backend_uuid, pre |-> conversations,
               result |-> NoResult],
              SetBackend(conversations, conversation_id, backend_uuid))
    /\ streak' = -1
    /\ UNCHANGED <<clock, uuids>>

UpdateBackendUuid(conversation_id, backend_uuid) ==
    /\ UpdateCall(conversation_id, backend_uuid)
    /\ UNCHANGED auditVars

\* reset_conversation, lines 112-117.
ResetConversation(conversation_id) ==
    /\ lock = 0
    /\ Record([op |-> "reset", arg |-> conversation_id, cid |-> conversation_id,
               backend |-> None, pre |-> conversations,
               result |-> NoResult],
              Delete(conversations, conversation_id))
    /\ streak' = -1
    /\ UNCHANGED <<clock, uuids, auditVars>>

Next ==
    \/ \E cid \in ConvIdArgs : Resolve(cid)
    \/ \E cid \in ConvIdArgs, b \in BackendIds : UpdateBackendUuid(cid, b)
    \/ \E cid \in ConvIdArgs : ResetConversation(cid)

Spec == Init /\ [][Next]_vars

\* The same calls with their callers' view recorded: which thread_uuid each
\* resolve returned, and which one the caller of an update had been given.
ResolveCounted(conversation_id) ==
    /\ ResolveCall(conversation_id)
    /\ returned' = [returned EXCEPT ![last'.result.thread_uuid] =
                        [cid |-> last'.cid, count |-> @.count + 1]]
    /\ resolved' = [resolved EXCEPT ![last'.cid] = last'.result.thread_uuid]
    /\ UNCHANGED held

\* update_backend_uuid(conversation_id, backend_uuid) called by a request
\* whose resolve of conversation_id had returned thread_uuid.
UpdateHeld(conversation_id, backend_uuid, thread_uuid) ==
    /\ returned[thread_uuid].count > 0
    /\ returned[thread_uuid].cid = conversation_id
    /\ UpdateCall(conversation_id, backend_uuid)
    /\ held' = thread_uuid
    /\ UNCHANGED <<returned, resolved>>

\* The identifiers of the audited calls.
AuditIds == {"default", "a"}

NextAudit ==
    \/ \E cid \in AuditIds : ResolveCounted(cid)
    \/ \E cid \in AuditIds, b \in BackendIds, t \in 1..MaxClock :
          UpdateHeld(cid, b, t)
    \/ \E cid \in AuditIds : ResetConversation(cid)

SpecAudit == Init /\ [][NextAudit]_vars

\* `data.get("conversation_id", "default")`: the argument the chat endpoint
\* (line 157) and the reset endpoint (main.py, line 227) pass on.
RequestConversationId(field) == IF field = Absent THEN "default" ELSE field

\* The manager as the two endpoints call it, with every spelling of the
\* identifier of the default conversation.
NextIds ==
    \/ \E field \in RequestFields : Resolve(RequestConversationId(field))
    \/ \E field \in RequestFields : ResetConversation(RequestConversationId(field))

SpecIds == Init /\ [][NextIds]_vars

----------------------------------------------------------------------------
\* Concurrent tasks, each making one call: the task suspends in
\* `async with self.lock:` until the lock is free, then runs the body.

Acquire(p) ==
    /\ pc[p] = "idle"
    /\ lock = 0
    /\ lock' = p
    /\ pc' = [pc EXCEPT ![p] = "locked"]
    /\ UNCHANGED <<conversations, clock, uuids, ret, removed, historyVars, streamVars,
                   chunkVars, auditVars, requestVars>>

\* Leaving `async with self.lock:`.
Release(p, r, convs) ==
    /\ conversations' = convs
    /\ removed' = removed \cup (Keys(conversations) \ Keys(convs))
    /\ ret' = [ret EXCEPT ![p] = r]
    /\ lock' = 0
    /\ pc' = [pc EXCEPT ![p] = "done"]
    /\ UNCHANGED <<historyVars, streamVars, chunkVars, auditVars, requestVars>>

TaskResolve(p, conversation_id) ==
    /\ pc[p] = "locked"
    /\ lock = p
    /\ LET now == clock + 1
           out == GetOrCreate(conversations, conversation_id, now, uuids + 1)
       IN /\ clock' = now
          /\ uuids' = IF out.drew THEN uuids + 1 ELSE uuids
          /\ Release(p, [op |-> "resolve", cid |-> Normalize(conversation_id),
                         now |-> now, result |-> out.result, active |-> 0],
                  out.convs)

TaskUpdate(p, conversation_id, backend_uuid) ==
    /\ pc[p] = "locked"
    /\ lock = p
    /\ Release(p, [op |-> "update", cid |-> conversation_id, now |-> 0,
                   result |-> NoResult, active |-> 0],
               SetBackend(conversations, conversation_id, backend_uuid))
    /\ UNCHANGED <<clock, uuids>>

TaskReset(p, conversation_id) ==
    /\ pc[p] = "locked"
    /\ lock = p
    /\ Release(p, [op |-> "reset", cid |-> conversation_id, now |-> 0,
                   result |-> NoResult, active |-> 0],
               Delete(conversations, conversation_id))
    /\ UNCHANGED <<clock, uuids>>

\* get_stats() as GET /api/conversations calls it (main.py, line 217): a
\* plain method, no `async with self.lock:`; the task never takes the lock.
TaskStats(p) ==
    /\ pc[p] = "idle"
    /\ pc' = [pc EXCEPT ![p] = "done"]
    /\ ret' = [ret EXCEPT ![p] = [op |-> "stats", cid |-> "", now |-> 0,
                                  result |-> NoResult,
                                  active |-> GetStats.active_conversations]]
    /\ UNCHANGED <<managerVars, removed, historyVars, streamVars, chunkVars,
                   auditVars, requestVars>>

NextTasks ==
    \E p \in Tasks :
        \/ Acquire(p)
        \/ TaskStats(p)
        \/ \E cid \in TaskIds : TaskResolve(p, cid)
        \/ \E cid \in TaskIds, b \in BackendIds : TaskUpdate(p, cid, b)
        \/ \E cid \in TaskIds : TaskReset(p, cid)

SpecTasks == Init /\ [][NextTasks]_vars

----------------------------------------------------------------------------
\* chat_completion and its stream_generator: one request in flight at a time.

\* create_chat_completion_chunk(request_id, model, content, finish_reason)
\* and DONE_CHUNK of app.utils.sse_utils, as outbound frames.
CreateChunk(content, finish_reason) ==
    [kind |-> "chunk", content |-> content, finish_reason |-> finish_reason]

DONE_CHUNK == [kind |-> "done", content |-> <<"[DONE]">>, finish_reason |-> None]

\* f"[Error: Upstream {response.status_code} - Cookie may have expired, ...]"
StatusErrorText(status) ==
    <<"[Error: Upstream ", ToString(status),
      " - Cookie may have expired, please re-import via Web UI]">>

\* f"[Error: {str(e)}]"
ExceptionText == <<"[Error: ", "str(e)", "]">>

WarningText == <<"[Warning: No content returned]">>

\* The decoded texts: every sequence of up to MaxLen characters.
Texts == UNION {[1..n -> Chars] : n \in 0..MaxLen}

----------------------------------------------------------------------------
\* The upstream lines and the envelope decoder of lines 276-346 (406-476).

RECURSIVE Concat(_)
Concat(texts) == IF texts = <<>> THEN <<>> ELSE Head(texts) \o Concat(Tail(texts))

\* One element of a steps array.  shape tells what `content` holds.
Step(step_type, shape, text) ==
    [step_type |-> step_type, shape |-> shape, text |-> text]

SearchWebSteps ==
    {Step("SEARCH_WEB", "queries", <<"q">>),      \* queries: [{"query": "q"}]
     Step("SEARCH_WEB", "no_query_key", <<>>)}    \* queries: [{}]

SearchResultsSteps ==
    {Step("SEARCH_RESULTS", "results", <<"2">>),  \* two web_results
     Step("SEARCH_RESULTS", "empty", <<>>)}       \* web_results: []

\* FINAL steps by what content.answer is: a string holding {"answer": text},
\* a string that is no JSON, a string holding an object without "answer", a
\* string holding {"answer": 7}, null (or absent), the number 7.
FinalSteps ==
    {Step("FINAL", "object", <<"x">>),
     Step("FINAL", "object", <<"x", "y">>),
     Step("FINAL", "plain", <<"x">>),
     Step("FINAL", "object_no_answer", <<>>),
     Step("FINAL", "object_answer_num", <<"{\"answer\": 7}">>),
     Step("FINAL", "null", <<>>),
     Step("FINAL", "num", <<"7">>)}

\* A step of another type, and an array element that is not an object.
OtherSteps == {Step("OTHER", "", <<>>), Step("NOT_A_DICT", "", <<>>)}

Steps == SearchWebSteps \cup SearchResultsSteps \cup FinalSteps \cup OtherSteps

\* The steps arrays: up to one step, and the pairs of a search step, or of a
\* malformed element, with a FINAL step holding an answer.
StepArrays ==
    {<<>>} \cup {<<s>> : s \in Steps}
        \cup {<<s, f>> : s \in {Step("SEARCH_WEB", "queries", <<"q">>),
                                Step("SEARCH_RESULTS", "results", <<"2">>),
                                Step("NOT_A_DICT", "", <<>>)},
                         f \in {Step("FINAL", "object", <<"x", "y">>)}}
        \cup {<<Step("FINAL", "object", <<"x">>), Step("NOT_A_DICT", "", <<>>)>>}

\* The values an envelope carries under its key.
Values ==
    {Str(t) : t \in {<<"x">>, <<"x", "y">>}}
        \cup {Shape(t) : t \in {"null", "num", "dict", "badarray", "obj_answer_num",
                                "obj_empty", "badobj"}}
        \cup {Value("list", <<"x">>, <<>>, <<>>)}
        \cup {Value("steps", <<>>, a, <<>>) : a \in StepArrays}
        \cup {Value("obj_answer", t, <<>>, <<>>) : t \in {<<"x">>, <<"x", "y">>}}
        \cup {Value("obj_chunks", <<>>, <<>>, <<<<"x">>, <<"y">>>>)}

\* The string itself, where the decoder falls back to it.
RawText(v) ==
    CASE v.t = "steps" -> <<"[">> \o [i \in DOMAIN v.steps |-> "{step}"] \o <<"]">>
      [] v.t = "badarray" -> <<"[oops">>
      [] v.t = "badobj" -> <<"{oops">>
      [] OTHER -> v.text

\* What one step adds to current_full_text under `key`, or that it raised:
\* lines 286-310 under "answer", lines 326-337 under "text".
\* The notices are written without their emoji.
StepText(key, step) ==
    LET adds(text) == [raised |-> FALSE, text |-> text]
        raises == [raised |-> TRUE, text |-> <<>>]
    IN CASE step.step_type = "NOT_A_DICT" -> raises
         [] step.step_type = "SEARCH_WEB" ->
              IF key # "answer" THEN adds(<<>>)
              ELSE IF step.shape = "no_query_key" THEN raises
              ELSE adds(<<"> Searching: ">> \o step.text \o <<"\n\n">>)
         [] step.step_type = "SEARCH_RESULTS" ->
              IF key # "answer" \/ step.shape = "empty" THEN adds(<<>>)
              ELSE adds(<<"> Found ">> \o step.text \o <<" sources\n\n">>)
         [] step.step_type = "FINAL" ->
              (CASE step.shape \in {"object", "plain", "object_answer_num"} ->
                      adds(step.text)
                 [] step.shape = "object_no_answer" -> adds(<<>>)
                 [] step.shape = "null" ->
                      IF key = "answer" THEN adds(<<"None">>) ELSE adds(<<>>)
                 [] step.shape = "num" ->
                      IF key = "answer" THEN adds(step.text) ELSE adds(<<>>))
         [] OTHER -> adds(<<>>)

\* `for step in steps:` with current_full_text starting at acc.
RECURSIVE DecodeSteps(_, _, _)
DecodeSteps(key, steps, acc) ==
    IF steps = <<>> THEN [raised |-> FALSE, text |-> acc]
    ELSE LET r == StepText(key, Head(steps)) IN
         IF r.raised THEN r
         ELSE DecodeSteps(key, Tail(steps), acc \o r.text)

\* current_full_text after lines 280-346: a string or, where the raw value is
\* assigned as it is, a value of another type.
Snapshot(t, text) == [t |-> t, text |-> text]

DecodeValue(key, v) ==
    CASE v.t = "steps" ->
           LET r == DecodeSteps(key, v.steps, <<>>) IN
           IF r.raised THEN Snapshot("str", RawText(v)) ELSE Snapshot("str", r.text)
      [] v.t \in {"badarray", "badobj"} -> Snapshot("str", RawText(v))
      [] v.t = "obj_answer" -> Snapshot("str", v.text)
      [] v.t = "obj_answer_num" -> Snapshot("num", <<>>)
      [] v.t = "obj_chunks" ->
           IF key = "text" THEN Snapshot("str", Concat(v.chunks))
           ELSE Snapshot("str", <<>>)
      [] v.t = "obj_empty" -> Snapshot("str", <<>>)
      [] OTHER -> Snapshot(v.t, v.text)

OtherLines ==
    {Line(k, "", Shape("null")) : k \in {"noise", "sentinel", "unparsable"}}

\* The lines of the responses of SpecStream: cumulative plain text.
Lines == OtherLines \cup {Line("data", "answer", Str(t)) : t \in Texts}

\* The lines of the responses of SpecLines: every shape of envelope.
EnvelopeLines ==
    OtherLines
        \cup {Line("data", k, v) : k \in {"answer", "text"}, v \in Values}
        \cup {Line("data", k, Shape("null")) : k \in {"none", "scalar"}}

NoOutcome == [raised |-> FALSE, decoded |-> FALSE, emit |-> FALSE, text |-> <<>>]

Raised == [NoOutcome EXCEPT !.raised = TRUE]

\* Mutant of DeltaText: the whole snapshot is sent again.
DeltaWhole(current_full_text, previous) == current_full_text

\* `delta_text = current_full_text[len(last_full_text):]`
DeltaText(current_full_text, previous) ==
    SubSeq(current_full_text, Len(previous) + 1, Len(current_full_text))

\* Mutant of Grows: `!=` for the comparison of the lengths.
GrowsOrDiffers(current_full_text, previous) ==
    /\ current_full_text # <<>>
    /\ current_full_text # previous

\* Mutant of Grows: `>=` for `>`.
GrowsOrEqual(current_full_text, previous) ==
    /\ current_full_text # <<>>
    /\ Len(current_full_text) >= Len(previous)

\* `if current_full_text: if len(current_full_text) > len(last_full_text):`
Grows(current_full_text, previous) ==
    /\ current_full_text # <<>>
    /\ Len(current_full_text) > Len(previous)

\* The body of the loop for one line read while last_full_text is previous,
\* lines 268-355 without the handler of line 357: whether it raised, whether
\* a string (or array) snapshot was decoded, and whether a delta is emitted.
ProcessLine(line, previous) ==
    IF line.kind \in {"noise", "sentinel"} THEN NoOutcome
    ELSE IF line.kind = "unparsable" \/ line.key = "scalar" THEN Raised
    ELSE IF line.key = "none" THEN NoOutcome
    ELSE LET s == DecodeValue(line.key, line.value) IN
         CASE s.t \in {"str", "list"} ->
                [raised |-> FALSE, decoded |-> TRUE,
                 emit |-> Grows(s.text, previous), text |-> s.text]
           [] s.t = "null" -> NoOutcome
           [] s.t = "num" -> Raised                 \* len() of a number
           [] s.t = "dict" ->                       \* a slice of a dict
                IF 1 > Len(previous) THEN Raised ELSE NoOutcome

\* Mutant of PerLineTry: the exception leaves the loop.
PerLineTryReraise(outcome) == outcome

\* `except Exception as e: logger.warning(...); pass` around one line.
PerLineTry(outcome) == IF outcome.raised THEN NoOutcome ELSE outcome

\* The two frames of the non-200 path, lines 255-257 (392-394 for httpx).
StatusErrorFrames(status) ==
    <<CreateChunk(StatusErrorText(status), "stop"), DONE_CHUNK>>

\* The two frames of `except Exception as e:`, lines 369-370 (499-500).
ExceptionFrames == <<CreateChunk(ExceptionText, "stop"), DONE_CHUNK>>

\* Mutant of EndFrames: the stream ends without "[DONE]".
EndFramesNoDone(content_seen) ==
    (IF ~content_seen THEN <<CreateChunk(WarningText, "stop")>> ELSE <<>>)
        \o <<CreateChunk(<<>>, "stop")>>

\* Mutant of EndFrames: the warning is sent whatever was emitted before.
EndFramesAlwaysWarn(content_seen) ==
    <<CreateChunk(WarningText, "stop"), CreateChunk(<<>>, "stop"), DONE_CHUNK>>

\* The frames after the line loop, lines 361-365 (491-495 for httpx).
EndFrames(content_seen) ==
    (IF ~content_seen THEN <<CreateChunk(WarningText, "stop")>> ELSE <<>>)
        \o <<CreateChunk(<<>>, "stop"), DONE_CHUNK>>

\* chat_completion, lines 142-226 and 504: resolve the conversation, build the
\* payload, return the StreamingResponse over a generator not yet started.
ChatCompletion(conversation_id) ==
    /\ spc \in {"idle", "done"}
    /\ nreq < MaxRequests
    /\ clock < MaxClock
    /\ lock = 0
    /\ LET now == clock + 1
           out == GetOrCreate(conversations, conversation_id, now, uuids + 1)
           r == out.result
       IN /\ clock' = now
          /\ uuids' = IF out.drew THEN uuids + 1 ELSE uuids
          /\ conversations' = out.convs
          /\ conv_info' = [conversation_id |-> conversation_id,
                           thread_uuid |-> r.thread_uuid,
                           backend_uuid |-> r.backend_uuid,
                           is_new |-> r.is_new,
                           turn_count |-> r.turn_count]
          /\ payload' = [frontend_uuid |-> r.thread_uuid,
                         is_related_query |-> ~r.is_new,
                         query_source |-> IF ~r.is_new THEN "followup" ELSE "home",
                         backend_uuid |-> r.backend_uuid]
    /\ spc' = "created"
    /\ exit_path' = ""
    /\ nreq' = nreq + 1
    /\ status_code' = 0
    /\ upstream_backend' = None
    /\ nlines' = 0
    /\ last_full_text' = <<>>
    /\ has_content' = FALSE
    /\ frames' = <<>>
    /\ snaps' = <<>>
    /\ line_str' = NoLine
    /\ UNCHANGED <<lock, taskVars, historyVars, chunkVars, auditVars, requestVars>>

\* session.post / client.stream answers: lines 238-260 (385-396 for httpx).
StreamPostCall(status, backend) ==
    /\ spc = "created"
    /\ status_code' = status
    /\ upstream_backend' = backend
    /\ IF status # 200
       THEN /\ frames' = frames \o StatusErrorFrames(status)
            /\ spc' = "done"
            /\ exit_path' = "status"
       ELSE /\ frames' = frames
            /\ spc' = "streaming"
            /\ exit_path' = exit_path
    /\ last_full_text' = <<>>
    /\ has_content' = FALSE
    /\ UNCHANGED <<managerVars, taskVars, historyVars, auditVars, requestVars, nreq, conv_info, payload,
                   nlines, snaps, line_str>>

StreamPost(status, backend) ==
    /\ StreamPostCall(status, backend)
    /\ UNCHANGED chunkVars

\* `except Exception as e:` (lines 367-370, 497-500): the transport raised,
\* before the response or while the lines were read.
StreamException ==
    /\ spc \in {"created", "streaming"}
    /\ frames' = frames \o ExceptionFrames
    /\ spc' = "done"
    /\ exit_path' = "exception"
    /\ UNCHANGED <<managerVars, taskVars, historyVars, chunkVars, auditVars, requestVars, nreq, conv_info, payload,
                   status_code, upstream_backend, nlines, last_full_text,
                   has_content, snaps, line_str>>

\* One pass of the line loop, lines 267-359 (398-489 for httpx).
StreamLine(line) ==
    /\ spc = "streaming"
    /\ nlines < MaxLines
    /\ nlines' = nlines + 1
    /\ line_str' = line
    /\ LET out == PerLineTry(ProcessLine(line, last_full_text)) IN
         /\ snaps' = IF out.decoded THEN Append(snaps, out.text) ELSE snaps
         /\ IF out.raised
            THEN /\ frames' = frames \o ExceptionFrames
                 /\ spc' = "done"
                 /\ exit_path' = "exception"
                 /\ UNCHANGED <<last_full_text, has_content>>
            ELSE /\ UNCHANGED <<spc, exit_path>>
                 /\ IF out.emit
                    THEN /\ frames' = Append(frames,
                                         CreateChunk(DeltaText(out.text, last_full_text),
                                                     None))
                         /\ last_full_text' = out.text
                         /\ has_content' = TRUE
                    ELSE UNCHANGED <<frames, last_full_text, has_content>>
    /\ UNCHANGED <<managerVars, taskVars, historyVars, chunkVars, auditVars, requestVars, nreq, conv_info, payload,
                   status_code, upstream_backend>>

\* The upstream stream ended: lines 361-365 (491-495 for httpx).
StreamEnd ==
    /\ spc = "streaming"
    /\ frames' = frames \o EndFrames(has_content)
    /\ spc' = "done"
    /\ exit_path' = "end"
    /\ UNCHANGED <<managerVars, taskVars, historyVars, chunkVars, auditVars, requestVars, nreq, conv_info, payload,
                   status_code, upstream_backend, nlines, last_full_text,
                   has_content, snaps, line_str>>

NextStream ==
    \/ \E cid \in ChatIds : ChatCompletion(cid)
    \/ \E status \in Statuses, b \in BackendIds : StreamPost(status, b)
    \/ StreamException
    \/ \E line \in Lines : StreamLine(line)
    \/ StreamEnd

SpecStream == Init /\ [][NextStream]_vars

\* The requests of one conversation whose responses carry every envelope.
NextLines ==
    \/ ChatCompletion("default")
    \/ \E status \in Statuses, b \in BackendIds : StreamPost(status, b)
    \/ StreamException
    \/ \E line \in EnvelopeLines : StreamLine(line)
    \/ StreamEnd

SpecLines == Init /\ [][NextLines]_vars

----------------------------------------------------------------------------
\* The chunk loop of the curl_cffi path, lines 263-268: the body of a 200
\* response arrives in chunks of bytes cut anywhere.

\* The characters of a body as UTF-8: an ASCII letter, the newline, and the
\* two bytes C3 A9 of one two-byte character.
Utf8Chars == {<<"a">>, <<"\n">>, <<"C3", "A9">>}

\* The bodies: up to MaxChars characters, encoded.
Bodies == {Concat(cs) : cs \in UNION {[1..n -> Utf8Chars] : n \in 0..MaxChars}}

\* `chunk.decode('utf-8', errors='ignore')`: a lead byte without its
\* continuation byte, and a continuation byte without its lead, are dropped.
RECURSIVE Utf8DecodeIgnore(_)
Utf8DecodeIgnore(bytes) ==
    IF bytes = <<>> THEN <<>>
    ELSE IF Len(bytes) >= 2 /\ bytes[1] = "C3" /\ bytes[2] = "A9"
    THEN <<"C3A9">> \o Utf8DecodeIgnore(SubSeq(bytes, 3, Len(bytes)))
    ELSE IF Head(bytes) \in {"C3", "A9"}
    THEN Utf8DecodeIgnore(Tail(bytes))
    ELSE <<Head(bytes)>> \o Utf8DecodeIgnore(Tail(bytes))

\* `while '\n' in buffer: line, buffer = buffer.split('\n', 1)`: the lines
\* taken off text, after those of acc, and what stays in the buffer.
RECURSIVE SplitLines(_, _)
SplitLines(text, acc) ==
    IF \A i \in DOMAIN text : text[i] # "\n"
    THEN [lines |-> acc, buffer |-> text]
    ELSE LET i == CHOOSE k \in DOMAIN text :
                      text[k] = "\n" /\ \A j \in 1..(k - 1) : text[j] # "\n"
         IN SplitLines(SubSeq(text, i + 1, Len(text)),
                       Append(acc, SubSeq(text, 1, i - 1)))

\* A response whose body is one of Bodies.
InitBody ==
    /\ InitManager
    /\ InitTasks
    /\ InitHistory
    /\ InitStream
    /\ InitAudit
    /\ InitRequests
    /\ body \in Bodies
    /\ delivered = 0
    /\ buffer = <<>>
    /\ line_log = <<>>

\* One pass of `async for chunk in response.aiter_content():` with a chunk
\* of n bytes, lines 264-268.
ReadChunk(n) ==
    /\ delivered + n <= Len(body)
    /\ LET chunk == SubSeq(body, delivered + 1, delivered + n)
           split == SplitLines(buffer \o Utf8DecodeIgnore(chunk), <<>>)
       IN /\ buffer' = split.buffer
          /\ line_log' = line_log \o split.lines
    /\ delivered' = delivered + n
    /\ UNCHANGED <<managerVars, taskVars, historyVars, streamVars, auditVars, requestVars, body>>

NextChunks == \E n \in 1..(2 * MaxChars) : ReadChunk(n)

SpecChunks == InitBody /\ [][NextChunks]_vars

----------------------------------------------------------------------------
\* Concurrent chat requests: each runs chat_completion (resolve under the
\* lock, lines 159-164) and then its own stream_generator, suspending at the
\* upstream awaits.  `lines` is the history of the lines the request read.

\* The lines of the responses of SpecRequests.
RequestLines ==
    {Line("noise", "", Shape("null")),
     Line("data", "answer", Str(<<"x">>)),
     Line("data", "answer", Str(<<"x", "y">>))}

\* Mutant of ReleaseLock: the lock stays with the request after the resolve.
ReleaseLockLate(p) == p

\* Leaving `async with self.lock:` at the end of get_or_create_conversation:
\* the lock has no owner.
ReleaseLock(p) == 0

\* Mutant of CloseSession: leaving the generator leaves the session as it is.
KeepSession(session) == session

\* Leaving `async with AsyncSession(...) as session:` (line 231), or running
\* `finally: await client.aclose()` (lines 501-502): an open session is closed.
CloseSession(session) == IF session = "open" THEN "closed" ELSE session

\* Mutant of StreamState: the locals are those of the first request.
SharedStreamState(p) ==
    [last_full_text |-> req[1].last_full_text, has_content |-> req[1].has_content]

\* The locals `last_full_text` and `has_content` of the generator of
\* request p, lines 259-260.
StreamState(p) ==
    [last_full_text |-> req[p].last_full_text, has_content |-> req[p].has_content]

\* One pass of the line loop from the locals st: the locals after it and the
\* frames it yields (lines 268-359, the handler of line 357 included).
LineStep(st, line) ==
    LET out == PerLineTry(ProcessLine(line, st.last_full_text)) IN
    IF out.emit
    THEN [last_full_text |-> out.text, has_content |-> TRUE,
          frames |-> <<CreateChunk(DeltaText(out.text, st.last_full_text), None)>>]
    ELSE [last_full_text |-> st.last_full_text, has_content |-> st.has_content,
          frames |-> <<>>]

\* The request suspends in `async with self.lock:` until the lock is free.
ReqAcquire(p) ==
    /\ req[p].pc = "new"
    /\ lock = 0
    /\ lock' = p
    /\ req' = [req EXCEPT ![p].pc = "locked"]
    /\ UNCHANGED <<conversations, clock, uuids, taskVars, historyVars, streamVars,
                   chunkVars, auditVars>>

\* The body of get_or_create_conversation and the rest of chat_completion up
\* to `return StreamingResponse(...)`: the lock is released, the generator
\* is not yet started.
ReqResolve(p, conversation_id) ==
    /\ req[p].pc = "locked"
    /\ lock = p
    /\ clock < MaxClock
    /\ LET now == clock + 1
           out == GetOrCreate(conversations, conversation_id, now, uuids + 1)
       IN /\ clock' = now
          /\ uuids' = IF out.drew THEN uuids + 1 ELSE uuids
          /\ conversations' = out.convs
          /\ req' = [req EXCEPT ![p].pc = "created",
                                ![p].thread_uuid = out.result.thread_uuid]
    /\ lock' = ReleaseLock(p)
    /\ UNCHANGED <<taskVars, historyVars, streamVars, chunkVars, auditVars>>

\* The generator starts: the session is opened and the request awaits
\* `session.post(...)`, lines 231-246 (375-383 for httpx).
ReqOpen(p) ==
    /\ req[p].pc = "created"
    /\ req' = [req EXCEPT ![p].pc = "posting", ![p].session = "open"]
    /\ UNCHANGED <<managerVars, taskVars, historyVars, streamVars, chunkVars,
                   auditVars>>

\* The upstream answered: lines 248-260.  A status other than 200 yields the
\* two error frames and returns, which leaves the `async with`.
ReqResponse(p, status) ==
    /\ req[p].pc = "posting"
    /\ req' = IF status = 200
              THEN [req EXCEPT ![p].pc = "streaming", ![p].status_code = status]
              ELSE [req EXCEPT ![p].pc = "done", ![p].status_code = status,
                               ![p].exit_path = "status",
                               ![p].frames = @ \o StatusErrorFrames(status),
                               ![p].session = CloseSession(@)]
    /\ UNCHANGED <<managerVars, taskVars, historyVars, streamVars, chunkVars,
                   auditVars>>

\* One line of the upstream response, lines 263-359.
ReqLine(p, line) ==
    /\ req[p].pc = "streaming"
    /\ Len(req[p].lines) < MaxLines
    /\ LET step == LineStep(StreamState(p), line) IN
       req' = [req EXCEPT ![p].lines = Append(@, line),
                          ![p].last_full_text = step.last_full_text,
                          ![p].has_content = step.has_content,
                          ![p].frames = @ \o step.frames]
    /\ UNCHANGED <<managerVars, taskVars, historyVars, streamVars, chunkVars,
                   auditVars>>

\* The upstream stream ended: lines 361-365, then the `async with` is left.
ReqEnd(p) ==
    /\ req[p].pc = "streaming"
    /\ req' = [req EXCEPT ![p].pc = "done", ![p].exit_path = "end",
                          ![p].frames = @ \o EndFrames(StreamState(p).has_content),
                          ![p].session = CloseSession(@)]
    /\ UNCHANGED <<managerVars, taskVars, historyVars, streamVars, chunkVars,
                   auditVars>>

\* The post or the read raised: `except Exception`, lines 367-370 (497-500),
\* inside the `async with` (before the `finally`), which is then left.
ReqException(p) ==
    /\ req[p].pc \in {"posting", "streaming"}
    /\ req' = [req EXCEPT ![p].pc = "done", ![p].exit_path = "exception",
                          ![p].frames = @ \o ExceptionFrames,
                          ![p].session = CloseSession(@)]
    /\ UNCHANGED <<managerVars, taskVars, historyVars, streamVars, chunkVars,
                   auditVars>>

\* The client went away: the generator is closed before it started, or
\* CancelledError / GeneratorExit is raised at the await or yield where it is
\* suspended.  `except Exception` does not catch either; the `async with`
\* (the `finally` for httpx) runs on the way out.
ReqCancel(p) ==
    /\ req[p].pc \in {"created", "posting", "streaming"}
    /\ req' = [req EXCEPT ![p].pc = "cancelled", ![p].exit_path = "cancelled",
                          ![p].session = CloseSession(@)]
    /\ UNCHANGED <<managerVars, taskVars, historyVars, streamVars, chunkVars,
                   auditVars>>

NextRequests ==
    \/ \E p \in Requests : ReqAcquire(p)
    \/ \E p \in Requests, cid \in ChatIds : ReqResolve(p, cid)
    \/ \E p \in Requests : ReqOpen(p)
    \/ \E p \in Requests, status \in Statuses : ReqResponse(p, status)
    \/ \E p \in Requests, line \in RequestLines : ReqLine(p, line)
    \/ \E p \in Requests : ReqEnd(p)
    \/ \E p \in Requests : ReqException(p)
    \/ \E p \in Requests : ReqCancel(p)

SpecRequests == Init /\ [][NextRequests]_vars

----------------------------------------------------------------------------
\* The curl_cffi path from the bytes of the response to the frames: chunks
\* are decoded and appended to the buffer, complete lines are taken off it
\* and each goes through the loop body (lines 263-359).  The texts are
\* sequences of units: "data: " is the prefix, "{x}" and "{xy}" are the JSON
\* texts {"answer": "x"} and {"answer": "xy"}, "[DONE]" is the sentinel, ":c"
\* is a comment, " " is white space and "\n" the newline.

\* What the upstream can send between two cuts: a data line, the sentinel
\* line, a data line after white space, a blank line, a comment line, and
\* a data line without its newline.
Pieces ==
    {<<"data: ", "{x}", "\n">>, <<"data: ", "{xy}", "\n">>,
     <<"data: ", "[DONE]", "\n">>, <<" ", "data: ", "{x}", "\n">>,
     <<"\n">>, <<":c", "\n">>, <<"data: ", "{xy}">>}

SseBodies == {Concat(ps) : ps \in UNION {[1..n -> Pieces] : n \in 0..MaxPieces}}

\* str.strip(): white space at both ends is removed.
RECURSIVE Strip(_)
Strip(text) ==
    IF text = <<>> THEN text
    ELSE IF Head(text) = " " THEN Strip(Tail(text))
    ELSE IF text[Len(text)] = " " THEN Strip(SubSeq(text, 1, Len(text) - 1))
    ELSE text

\* Lines 269-277 (399-407 for httpx): from the text of a line to what the
\* loop body works on.
ParseLine(line) ==
    LET stripped == Strip(line) IN
    IF stripped = <<>> \/ Head(stripped) # "data: "
    THEN Line("noise", "", Shape("null"))
    ELSE LET json_str == Strip(Tail(stripped)) IN
         IF json_str = <<"[DONE]">> THEN Line("sentinel", "", Shape("null"))
         ELSE IF json_str = <<"{x}">> THEN Line("data", "answer", Str(<<"x">>))
         ELSE IF json_str = <<"{xy}">> THEN Line("data", "answer", Str(<<"x", "y">>))
         ELSE Line("unparsable", "", Shape("null"))

\* The loop body applied to the lines in order, from the locals and the
\* frames of st.
RECURSIVE RunLines(_, _)
RunLines(lines, st) ==
    IF lines = <<>> THEN st
    ELSE LET step == LineStep(st, ParseLine(Head(lines))) IN
         RunLines(Tail(lines),
                  [last_full_text |-> step.last_full_text,
                   has_content |-> step.has_content,
                   frames |-> st.frames \o step.frames])

\* The response of the curl_cffi path: `buffer = ""` (line 263) and nothing
\* read yet.
StreamPostCurl(status, backend) ==
    /\ StreamPostCall(status, backend)
    /\ delivered' = 0
    /\ buffer' = <<>>
    /\ line_log' = <<>>
    /\ UNCHANGED body

\* One pass of `async for chunk in response.aiter_content():` with a chunk
\* of n bytes, lines 264-359.
StreamChunk(n) ==
    /\ spc = "streaming"
    /\ delivered + n <= Len(body)
    /\ LET chunk == SubSeq(body, delivered + 1, delivered + n)
           split == SplitLines(buffer \o Utf8DecodeIgnore(chunk), <<>>)
           out == RunLines(split.lines,
                           [last_full_text |-> last_full_text,
                            has_content |-> has_content, frames |-> frames])
       IN /\ buffer' = split.buffer
          /\ line_log' = line_log \o split.lines
          /\ nlines' = nlines + Len(split.lines)
          /\ frames' = out.frames
          /\ last_full_text' = out.last_full_text
          /\ has_content' = out.has_content
    /\ delivered' = delivered + n
    /\ UNCHANGED <<managerVars, taskVars, historyVars, auditVars, requestVars, body,
                   spc, exit_path, nreq, conv_info, payload, status_code,
                   upstream_backend, snaps, line_str>>

\* aiter_content() is exhausted once the whole body was handed over; what
\* is left in the buffer is not looked at again (lines 361-365).
StreamBodyEnd ==
    /\ delivered = Len(body)
    /\ StreamEnd

\* A response whose body is one of SseBodies.
InitTransport ==
    /\ InitManager
    /\ InitTasks
    /\ InitHistory
    /\ InitStream
    /\ InitAudit
    /\ InitRequests
    /\ body \in SseBodies
    /\ delivered = 0
    /\ buffer = <<>>
    /\ line_log = <<>>

NextTransport ==
    \/ ChatCompletion("default")
    \/ \E status \in Statuses, b \in BackendIds : StreamPostCurl(status, b)
    \/ StreamException
    \/ \E n \in 1..(2 * MaxChars) : StreamChunk(n)
    \/ StreamBodyEnd

SpecTransport == InitTransport /\ [][NextTransport]_vars

\* The httpx path, lines 398-495: the text decoder of the response replaces
\* what it cannot decode, and aiter_lines() yields every line, the last one
\* also when no newline ends it.
RECURSIVE Utf8DecodeReplace(_)
Utf8DecodeReplace(bytes) ==
    IF bytes = <<>> THEN <<>>
    ELSE IF Len(bytes) >= 2 /\ bytes[1] = "C3" /\ bytes[2] = "A9"
    THEN <<"C3A9">> \o Utf8DecodeReplace(SubSeq(bytes, 3, Len(bytes)))
    ELSE IF Head(bytes) \in {"C3", "A9"}
    THEN <<"FFFD">> \o Utf8DecodeReplace(Tail(bytes))
    ELSE <<Head(bytes)>> \o Utf8DecodeReplace(Tail(bytes))

AiterLines(text) ==
    LET split == SplitLines(text, <<>>) IN
    IF split.buffer = <<>> THEN split.lines ELSE Append(split.lines, split.buffer)

\* The frames of the httpx path for a 200 response with this body.
HttpxFrames(bytes) ==
    LET out == RunLines(AiterLines(Utf8DecodeReplace(bytes)),
                        [last_full_text |-> <<>>, has_content |-> FALSE,
                         frames |-> <<>>])
    IN out.frames \o EndFrames(out.has_content)

----------------------------------------------------------------------------
\* Properties of the ConversationManager.

Range(seq) == {seq[i] : i \in DOMAIN seq}

\* The sessions of the store before the last call that the call removed.
Gone == {e \in Range(last.pre) : ~Has(conversations, e.cid)}

\* The last call was a resolve of an unknown identifier on a full store.
EvictingCall ==
    /\ last.op = "resolve"
    /\ ~Has(last.pre, last.cid)
    /\ Len(last.pre) = max_conversations

\* C1: a resolve of an unknown identifier on a full store removes exactly one
\* session, the one whose last_used is older than that of every other session.
C1_EvictsLeastRecentlyAccessed ==
    EvictingCall =>
        /\ Cardinality(Gone) = 1
        /\ \A e \in Gone : \A f \in Range(last.pre) :
               f # e => e.last_used < f.last_used

\* C2: the store never holds more than max_conversations sessions, whatever
\* the interleaving of the tasks' resolve, update and reset calls.
C2_StoreBounded == GetStats.active_conversations <= max_conversations

Creations == {p \in Tasks : ret[p].op = "resolve" /\ ret[p].result.is_new
                                /\ ret[p].result.turn_count = 1}

C2_Witness ==
    /\ Len(conversations) = max_conversations
    /\ Cardinality(Creations) > max_conversations
    /\ \A p \in Tasks : ret[p].op # "reset"

\* C3: on a fresh manager the first max_turns resolve calls of one identifier
\* return turn_count 1, 2, ..., max_turns on one thread, is_new only on the
\* first; the next call returns another thread, turn_count 0, no backend_uuid
\* and is_new.
C3_FreshRunRotatesAfterMaxTurns ==
    /\ (streak >= 1 /\ streak <= max_turns) =>
          /\ last.result.turn_count = streak
          /\ last.result.thread_uuid = 1
          /\ last.result.is_new = (streak = 1)
    /\ streak = max_turns + 1 =>
          /\ last.result.thread_uuid # 1
          /\ last.result.thread_uuid # Get(last.pre, last.cid).thread_uuid
          /\ last.result.turn_count = 0
          /\ last.result.backend_uuid = None
          /\ last.result.is_new

C3_Witness ==
    /\ streak = max_turns + 1
    /\ Get(last.pre, last.cid).turn_count = max_turns
    /\ last.result.is_new

\* C4: every stored session has 0 <= turn_count <= max_turns, and no resolve
\* returns a turn_count above max_turns.
C4_TurnCountBounded ==
    /\ \A e \in Range(conversations) : e.turn_count \in 0..max_turns
    /\ last.op = "resolve" => last.result.turn_count \in 0..max_turns

\* A resolve met a session at max_turns and rotated it.
C4_Witness ==
    /\ last.op = "resolve"
    /\ Has(last.pre, last.cid)
    /\ Get(last.pre, last.cid).turn_count = max_turns
    /\ Get(conversations, last.cid).turn_count = 0
    /\ \E e \in Range(conversations) : e.turn_count = max_turns

DoneResolves == {p \in Tasks : pc[p] = "done" /\ ret[p].op = "resolve"}

NoLostIncrement ==
    \A p, q \in DoneResolves :
        (p # q /\ ret[p].result.thread_uuid = ret[q].result.thread_uuid) =>
            /\ ret[p].result.turn_count # ret[q].result.turn_count
            /\ (ret[p].now < ret[q].now) =
                   (ret[p].result.turn_count < ret[q].result.turn_count)

FirstTimeResults(cid) == {p \in Creations : ret[p].cid = cid}

TaskKeys == {Normalize(id) : id \in TaskIds}

\* C9 as stated: among concurrent tasks that only resolve, no two results
\* share thread_uuid and turn_count, and at most one call per identifier
\* returns is_new with turn_count 1.
C9_OneFirstTimeResultPerIdentifier ==
    (\A p \in Tasks : ret[p].op \in {"none", "resolve"}) =>
        /\ NoLostIncrement
        /\ \A cid \in TaskKeys : Cardinality(FirstTimeResults(cid)) <= 1

\* C9, amended: no two results share thread_uuid and turn_count, the turn
\* counts of one thread grow in the order the calls held the lock, no two
\* is_new results share a thread_uuid, and an identifier whose session was
\* never evicted or reset has at most one result with is_new and turn_count 1.
C9_ResolveCallsSerialized ==
    /\ NoLostIncrement
    /\ \A p, q \in DoneResolves :
          (p # q /\ ret[p].result.is_new /\ ret[q].result.is_new) =>
              ret[p].result.thread_uuid # ret[q].result.thread_uuid
    /\ \A p, q \in DoneResolves : p # q => ret[p].now # ret[q].now
    /\ \A cid \in TaskKeys \ removed : Cardinality(FirstTimeResults(cid)) <= 1

\* Three tasks resolved one identifier (creation, increment, rotation) while
\* a fourth resolved another.
C9_Witness ==
    \E p, q, r, o \in DoneResolves :
        /\ ret[p].cid = ret[q].cid /\ ret[q].cid = ret[r].cid
        /\ ret[o].cid # ret[p].cid
        /\ ret[p].result.is_new /\ ret[p].result.turn_count = 1
        /\ ~ret[q].result.is_new /\ ret[q].result.turn_count = max_turns
        /\ ret[q].result.thread_uuid = ret[p].result.thread_uuid
        /\ ret[r].result.is_new /\ ret[r].result.turn_count = 0

\* C10: reset_conversation(id) followed at once by resolve(id), for a
\* non-empty id, returns a thread_uuid never issued before (so not the one
\* the session had), no backend_uuid, is_new and turn_count 1.
C10_ResetThenResolveIsFresh ==
    (prevReset.arg # "-" /\ prevReset.arg # "" /\ last.op = "resolve"
        /\ last.arg = prevReset.arg) =>
        /\ last.result.is_new
        /\ last.result.turn_count = 1
        /\ last.result.backend_uuid = None
        /\ last.result.thread_uuid = uuids
        /\ last.result.thread_uuid # prevReset.thread_uuid
        /\ \A e \in Range(last.pre) : e.thread_uuid < last.result.thread_uuid

\* The reset removed a session that had a backend_uuid and several turns,
\* another session was in the store, and the identifier was resolved next.
C10_Witness ==
    /\ prevReset.had
    /\ prevReset.turn_count >= 2
    /\ prevReset.backend_uuid # None
    /\ last.op = "resolve"
    /\ last.arg = prevReset.arg
    /\ Len(last.pre) >= 1

----------------------------------------------------------------------------
\* Properties of stream_generator.

\* The content deltas the line loop has emitted, in order.
Deltas ==
    LET loop == SelectSeq(frames, LAMBDA f : f.kind = "chunk" /\ f.finish_reason = None)
    IN [i \in DOMAIN loop |-> loop[i].content]

LengthsNonDecreasing(ss) ==
    \A i \in 1..(Len(ss) - 1) : Len(ss[i]) <= Len(ss[i + 1])

IsPrefix(s, t) == Len(s) <= Len(t) /\ SubSeq(t, 1, Len(s)) = s

PrefixChain(ss) == \A i \in 1..(Len(ss) - 1) : IsPrefix(ss[i], ss[i + 1])

\* C5 as stated: when the snapshots' lengths never decrease, the emitted
\* deltas concatenate to the last snapshot.
C5_DeltasOfLengthMonotoneSnapshots ==
    (snaps # <<>> /\ LengthsNonDecreasing(snaps)) =>
        Concat(Deltas) = snaps[Len(snaps)]

\* C5, amended: when every snapshot is a prefix of the next one (cumulative
\* text), the emitted deltas concatenate to the last snapshot.
C5_DeltasOfCumulativeSnapshots ==
    (snaps # <<>> /\ PrefixChain(snaps)) =>
        Concat(Deltas) = snaps[Len(snaps)]

\* Two cumulative snapshots gave two deltas.
C5_Witness ==
    /\ Len(snaps) = 2
    /\ PrefixChain(snaps)
    /\ Len(Deltas) = 2
    /\ Concat(Deltas) = snaps[2]

StopFrame == CreateChunk(<<>>, "stop")

\* C6: on every exit path the last two frames are the stop frame (empty
\* content, finish_reason "stop") and then [DONE].
C6_EndsWithStopFrameThenDone ==
    spc = "done" =>
        /\ Len(frames) >= 2
        /\ frames[Len(frames) - 1] = StopFrame
        /\ frames[Len(frames)] = DONE_CHUNK

\* C7: a status other than 200 gives exactly three frames: a content frame
\* naming the status, the stop frame, [DONE]; no upstream line is consumed.
C7_ErrorStatusGivesThreeFrames ==
    (spc = "done" /\ exit_path = "status") =>
        /\ Len(frames) = 3
        /\ frames[1].kind = "chunk"
        /\ frames[1].content = StatusErrorText(status_code)
        /\ frames[2] = StopFrame
        /\ frames[3] = DONE_CHUNK
        /\ nlines = 0

\* C8: after a request whose upstream stream ended normally, the session of
\* its conversation, if still in the store, holds the backend identifier the
\* upstream response carried.
C8_BackendIdStoredAfterSuccess ==
    LET cid == Normalize(conv_info.conversation_id) IN
    (spc = "done" /\ exit_path = "end" /\ Has(conversations, cid)) =>
        Get(conversations, cid).backend_uuid = upstream_backend

\* C11: within one request, a decoded snapshot that is empty, or not longer
\* than last_full_text, emits no frame and leaves last_full_text and
\* has_content as they were; the same snapshot fed twice in a row emits
\* nothing the second time.
C11_NoFrameUnlessSnapshotGrows ==
    [][(/\ spc = "streaming"
        /\ Len(snaps') = Len(snaps) + 1
        /\ LET snapshot == snaps'[Len(snaps')] IN
              \/ snapshot = <<>>
              \/ Len(snapshot) <= Len(last_full_text)
              \/ (snaps # <<>> /\ snapshot = snaps[Len(snaps)]))
       => UNCHANGED <<frames, last_full_text, has_content>>]_vars

\* A snapshot was fed twice in a row: one delta, sent at its first occurrence.
C11_Witness ==
    /\ spc = "streaming"
    /\ Len(snaps) = 2
    /\ snaps[1] # <<>>
    /\ snaps[2] = snaps[1]
    /\ Deltas = <<snaps[1]>>
    /\ last_full_text = snaps[1]

\* Positions of the "[DONE]" frame among the request's outbound frames.
DonePositions == {i \in DOMAIN frames : frames[i].kind = "done"}

\* C12: on every exit path (non-200 status, transport exception, normal end
\* of the stream) "[DONE]" is emitted exactly once and is the last frame; a
\* generator still running has not emitted it.
C12_DoneOnceAndLast ==
    /\ spc = "done" => /\ exit_path \in {"status", "exception", "end"}
                       /\ DonePositions = {Len(frames)}
    /\ spc # "done" => DonePositions = {}

\* The transport raised after a delta had been sent.
C12_Witness ==
    /\ spc = "done"
    /\ exit_path = "exception"
    /\ Deltas # <<>>
    /\ DonePositions = {Len(frames)}

\* Positions of the frames whose finish_reason is "stop".
StopPositions == {i \in DOMAIN frames : frames[i].finish_reason = "stop"}

\* C13: every frame with non-empty delta.content has finish_reason null, and
\* "stop" is on exactly one frame of a finished response, the stop frame
\* with empty content.
C13_StopOnlyOnEmptyStopFrame ==
    /\ \A i \in DOMAIN frames :
          (frames[i].kind = "chunk" /\ frames[i].content # <<>>)
              => frames[i].finish_reason = None
    /\ spc = "done" => \E i \in DOMAIN frames :
                           /\ StopPositions = {i}
                           /\ frames[i] = StopFrame

\* Positions of the frames carrying the warning text.
WarningPositions == {i \in DOMAIN frames : frames[i].content = WarningText}

\* C14: when the 200 response's stream ends, the warning frame is emitted
\* exactly once if no content delta was emitted (has_content false), directly
\* before the stop frame and "[DONE]", and not at all if a delta was emitted;
\* it is never emitted while lines are still being read.
C14_WarningIffNoContent ==
    /\ spc = "streaming" => WarningPositions = {}
    /\ (spc = "done" /\ exit_path = "end") =>
          /\ has_content = (Deltas # <<>>)
          /\ Deltas = <<>> => /\ WarningPositions = {Len(frames) - 2}
                              /\ frames[Len(frames) - 1] = StopFrame
                              /\ frames[Len(frames)] = DONE_CHUNK
          /\ Deltas # <<>> => WarningPositions = {}

\* Two lines were read, neither gave content, and the stream ended.
C14_Witness ==
    /\ spc = "done"
    /\ exit_path = "end"
    /\ nlines = 2
    /\ ~has_content
    /\ WarningPositions = {Len(frames) - 2}

----------------------------------------------------------------------------
\* Frame effects of the ConversationManager's calls.

\* The stored sessions keep their keys and their order across the last call.
SameKeysInOrder ==
    /\ Len(conversations) = Len(last.pre)
    /\ \A i \in DOMAIN conversations : conversations[i].cid = last.pre[i].cid

\* C18: update_backend_uuid(c, b) leaves the store as it was when c is not
\* stored; when c is stored only that session's backend_uuid changes, to b:
\* thread_uuid, turn_count, last_used, the recency order, the store's size
\* and every other session are as before.
C18_UpdateChangesOnlyBackend ==
    last.op = "update" =>
        IF ~Has(last.pre, last.arg)
        THEN conversations = last.pre
        ELSE /\ SameKeysInOrder
             /\ \A i \in DOMAIN conversations :
                   LET old == last.pre[i]
                       new == conversations[i]
                   IN /\ new.thread_uuid = old.thread_uuid
                      /\ new.turn_count = old.turn_count
                      /\ new.last_used = old.last_used
                      /\ new.backend_uuid = IF old.cid = last.arg
                                            THEN last.backend
                                            ELSE old.backend_uuid

\* The older of two sessions received its backend identifier.
C18_Witness ==
    /\ last.op = "update"
    /\ Len(last.pre) = 2
    /\ last.pre[1].cid = last.arg
    /\ last.pre[1].backend_uuid = None
    /\ conversations[1].backend_uuid = last.backend
    /\ last.backend # None

\* The last call was a resolve that found its session at the turn limit.
RotatingCall ==
    /\ last.op = "resolve"
    /\ Has(last.pre, last.cid)
    /\ Get(last.pre, last.cid).turn_count >= max_turns

\* C19: a rotation resets the session in place: same key, same position,
\* same store size, every other session untouched and none evicted; the
\* session has a new thread_uuid, no backend_uuid, turn_count 0 and the
\* call's time as last_used, and the call returns is_new = true.
C19_RotationResetsInPlace ==
    RotatingCall =>
        /\ SameKeysInOrder
        /\ \A i \in DOMAIN conversations :
              last.pre[i].cid # last.cid => conversations[i] = last.pre[i]
        /\ LET old == Get(last.pre, last.cid)
               new == Get(conversations, last.cid)
           IN /\ new.thread_uuid # old.thread_uuid
              /\ new.thread_uuid = last.result.thread_uuid
              /\ new.backend_uuid = None
              /\ new.turn_count = 0
              /\ new.last_used = clock
              /\ last.result.is_new
              /\ last.result.backend_uuid = None

\* The older of two sessions, holding a backend identifier, was rotated.
C19_Witness ==
    /\ RotatingCall
    /\ Len(last.pre) = 2
    /\ last.pre[1].cid = last.cid
    /\ last.pre[1].backend_uuid # None
    /\ conversations[1].backend_uuid = None

\* C20: with uuid4 a generator of fresh tokens, every stored session has a
\* thread_uuid (a token already issued), no two stored sessions share one,
\* and a thread_uuid issued by a creation or a rotation is the newest token:
\* it differs from every token issued, hence returned, before.
C20_ThreadUuidsFreshAndDistinct ==
    /\ \A i \in DOMAIN conversations : conversations[i].thread_uuid \in 1..uuids
    /\ \A i, j \in DOMAIN conversations :
          i # j => conversations[i].thread_uuid # conversations[j].thread_uuid
    /\ last.op = "resolve" =>
          /\ last.result.thread_uuid \in 1..uuids
          /\ last.result.is_new =>
                /\ last.result.thread_uuid = uuids
                /\ \A e \in Range(last.pre) : e.thread_uuid < uuids

\* A rotation drew the third token while another session was stored.
C20_Witness ==
    /\ RotatingCall
    /\ last.result.is_new
    /\ last.result.thread_uuid >= 3
    /\ Len(conversations) = 2

----------------------------------------------------------------------------
\* Properties of the envelope decoder inside the line loop.

\* The line's payload is no JSON, or its envelope has an unexpected shape.
ParseFails(line) ==
    \/ line.kind = "unparsable"
    \/ /\ line.kind = "data"
       /\ \/ line.key = "scalar"
          \/ /\ line.key \in {"answer", "text"}
             /\ \/ line.value.t \in {"null", "num", "dict", "list", "badarray",
                                      "badobj", "obj_answer_num"}
                \/ /\ line.value.t = "steps"
                   /\ DecodeSteps(line.key, line.value.steps, <<>>).raised

\* The line is an envelope of an expected shape.
WellFormed(line) ==
    /\ line.kind = "data"
    /\ line.key \in {"answer", "text"}
    /\ ~ParseFails(line)

\* The loop sent the delta that takes last_full_text to text.
EmittedDeltaTo(text) ==
    /\ last_full_text' = text
    /\ has_content'
    /\ frames' = Append(frames, CreateChunk(DeltaText(text, last_full_text), None))

\* C15: no line ends the stream.  Whatever the line, the loop goes on, and
\* the line adds at most one content delta; a line whose payload or envelope
\* fails to parse adds nothing or the delta of the raw value taken
\* literally; and a well-formed line, whatever lines came before it, is
\* decoded and emits its delta when its text is longer than last_full_text.
C15_LineFailureNeverEndsStream ==
    [][(spc = "streaming" /\ nlines' = nlines + 1) =>
          /\ spc' = "streaming"
          /\ exit_path' = exit_path
          /\ \/ UNCHANGED <<frames, last_full_text, has_content>>
             \/ /\ Len(last_full_text') > Len(last_full_text)
                /\ EmittedDeltaTo(last_full_text')
          /\ ParseFails(line_str') =>
                \/ UNCHANGED <<frames, last_full_text, has_content>>
                \/ EmittedDeltaTo(RawText(line_str'.value))
          /\ WellFormed(line_str') =>
                LET text == DecodeValue(line_str'.key, line_str'.value).text IN
                IF text # <<>> /\ Len(text) > Len(last_full_text)
                THEN EmittedDeltaTo(text)
                ELSE UNCHANGED <<frames, last_full_text, has_content>>]_vars

\* A string that is no JSON array was sent as it is, and the well-formed
\* line after it was decoded and gave the rest of its text.
C15_Witness ==
    /\ spc = "streaming"
    /\ nlines = 2
    /\ Deltas = <<RawText(Shape("badarray")), <<"y">>>>
    /\ line_str = Line("data", "answer", Str(<<"x", "y">>))
    /\ last_full_text = <<"x", "y">>

\* C16: the text decoded from a steps array does not depend on the key it
\* was found under: {"answer": v} and {"text": v} decode to the same text.
C16_StepsDecodeAlikeUnderBothKeys ==
    (line_str.kind = "data" /\ line_str.value.t = "steps") =>
        DecodeValue("answer", line_str.value) = DecodeValue("text", line_str.value)

C24_ResetIdempotent ==
    last.op = "reset" =>
        /\ ~Has(conversations, last.arg)
        /\ conversations = SelectSeq(last.pre, LAMBDA e : e.cid # last.arg)
        /\ ~Has(last.pre, last.arg) => conversations = last.pre
        /\ Has(last.pre, last.arg) => Len(conversations) = Len(last.pre) - 1
        /\ prevReset.arg = last.arg => conversations = last.pre

\* The older of two sessions was reset, then reset again.
C24_Witness ==
    /\ last.op = "reset"
    /\ prevReset.arg = last.arg
    /\ prevReset.had
    /\ Len(conversations) = 1
    /\ conversations[1].thread_uuid > prevReset.thread_uuid

\* C29: a request whose upstream call failed (non-200 status or transport
\* exception) on the first turn of its thread leaves the thread without a
\* successful turn, so the next request on that thread is not sent as a
\* follow-up.
C29_NoFollowUpAfterFailedTurn ==
    [][(/\ spc = "done"
        /\ exit_path \in {"status", "exception"}
        /\ conv_info.is_new
        /\ nreq' = nreq + 1
        /\ conv_info'.thread_uuid = conv_info.thread_uuid)
       => /\ ~payload'.is_related_query
          /\ payload'.query_source = "home"]_vars

----------------------------------------------------------------------------
\* The identifier of the default conversation.

\* C25: a resolve with None, "" or "default" (the value a chat request
\* without the field passes) addresses the one session stored under
\* "default": no session is stored under None or "", the call returns that
\* session's thread_uuid and turn_count, and when the session existed below
\* the turn limit the call returns its thread with the counter one higher.
C25_EmptyIdentifierIsDefault ==
    /\ \A k \in Keys(conversations) : k \notin {NoneId, ""}
    /\ (last.op = "resolve" /\ last.arg \in {NoneId, "", "default"}) =>
          /\ Has(conversations, "default")
          /\ LET new == Get(conversations, "default") IN
                /\ new.thread_uuid = last.result.thread_uuid
                /\ new.turn_count = last.result.turn_count
          /\ Len(conversations) >= Len(last.pre) =>
                Keys(conversations) = Keys(last.pre) \cup {"default"}
          /\ (Has(last.pre, "default") /\ ~ShouldRotate(Get(last.pre, "default"))) =>
                LET old == Get(last.pre, "default") IN
                  /\ last.result.thread_uuid = old.thread_uuid
                  /\ last.result.turn_count = old.turn_count + 1
                  /\ ~last.result.is_new

\* resolve("") took the second turn of the session of "default".
C25_Witness ==
    /\ last.op = "resolve"
    /\ last.arg = ""
    /\ Has(last.pre, "default")
    /\ last.result.turn_count = 2
    /\ ~last.result.is_new
    /\ Keys(conversations) = {"default"}

\* C30: reset_conversation("") removes the session resolve("") uses: the
\* resolve("") that follows it returns is_new = true with turn_count = 1.
C30_ResetOfEmptyIdentifierResetsDefault ==
    (last.op = "resolve" /\ last.arg = "" /\ prevReset.arg = "") =>
        /\ last.result.is_new
        /\ last.result.turn_count = 1

----------------------------------------------------------------------------
\* Threads as their callers see them.

\* C23: no thread_uuid is returned by more than max_turns resolve calls,
\* whether the thread was created with its session or by a rotation.
C23_ThreadReturnedAtMostMaxTurnsTimes ==
    \A t \in DOMAIN returned : returned[t].count <= max_turns

\* C28: after update_backend_uuid(c, b) by a request that had resolved c on
\* the thread `held`, b is stored in the session of c only if that session
\* still has the thread `held`.
C28_BackendStoredOnlyOnCallersThread ==
    (/\ last.op = "update"
     /\ Has(conversations, last.arg)
     /\ Get(conversations, last.arg).backend_uuid = last.backend)
        => Get(conversations, last.arg).thread_uuid = held

\* C22: every call that reads or writes the store, get_stats included, does
\* so while its task holds the lock.
C22_StoreAccessedUnderLock ==
    [][\A p \in Tasks : ret'[p] # ret[p] => lock = p]_vars

\* C21: the lock is held only between a request's acquire and the end of its
\* resolve: a request that awaits the upstream post or the next line, or
\* that has finished, does not own the lock, so whenever no request is
\* inside the resolve the lock is free for another request to take.
C21_LockNeverHeldDuringUpstreamIO ==
    /\ lock \in Requests \cup {0}
    /\ \A p \in Requests : lock = p <=> req[p].pc = "locked"

\* Request 2 is inside its resolve while request 1 awaits upstream lines.
C21_Witness ==
    /\ req[1].pc = "streaming"
    /\ req[1].lines # <<>>
    /\ req[2].pc = "locked"
    /\ lock = 2

\* C26: a request's upstream session is open exactly while its generator is
\* suspended on the upstream; after every exit (non-200 status, end of
\* stream, exception, cancellation) the session is not open.
C26_SessionReleasedOnEveryExit ==
    \A p \in Requests :
        /\ req[p].session = "open" <=> req[p].pc \in {"posting", "streaming"}
        /\ req[p].pc \in {"done", "cancelled"} => req[p].session # "open"

\* One request was cancelled in the middle of its stream, the other ended
\* on a status error; both sessions are closed.
C26_Witness ==
    /\ req[1].pc = "cancelled"
    /\ req[1].lines # <<>>
    /\ req[1].session = "closed"
    /\ req[2].exit_path = "status"
    /\ req[2].session = "closed"

\* The locals and frames of a generator that read `lines` from fresh locals.
RECURSIVE Translate(_)
Translate(lines) ==
    IF lines = <<>>
    THEN [last_full_text |-> <<>>, has_content |-> FALSE, frames |-> <<>>]
    ELSE LET prev == Translate(SubSeq(lines, 1, Len(lines) - 1))
             step == LineStep(prev, lines[Len(lines)])
         IN [last_full_text |-> step.last_full_text,
             has_content |-> step.has_content,
             frames |-> prev.frames \o step.frames]

\* The frames a request's exit adds, from its own status and locals.
ClosingFrames(r) ==
    CASE r.exit_path = "status" -> StatusErrorFrames(r.status_code)
      [] r.exit_path = "end" -> EndFrames(Translate(r.lines).has_content)
      [] r.exit_path = "exception" -> ExceptionFrames
      [] OTHER -> <<>>

\* C27: the cumulative text, the content flag and the frames of a request
\* are those its own upstream response gives from fresh locals, whatever the
\* other request read in between.
C27_StreamStateIsPerRequest ==
    \A p \in Requests :
        LET t == Translate(req[p].lines) IN
        /\ req[p].last_full_text = t.last_full_text
        /\ req[p].has_content = t.has_content
        /\ req[p].frames = t.frames \o ClosingFrames(req[p])

\* Two requests stream at once and have read different texts.
C27_Witness ==
    /\ req[1].pc = "streaming"
    /\ req[2].pc = "streaming"
    /\ req[1].last_full_text = <<"x">>
    /\ req[2].last_full_text = <<"x", "y">>
    /\ Len(req[2].lines) = MaxLines

RECURSIVE SumLen(_)
SumLen(texts) ==
    IF texts = <<>> THEN 0
    ELSE Len(texts[Len(texts)]) + SumLen(SubSeq(texts, 1, Len(texts) - 1))

\* C31: after every step of a streaming request (a processed line, the end
\* of the stream, an exception) the lengths of the deltas emitted so far add
\* up to len(last_full_text), no delta is empty, has_content is true exactly
\* when a delta was emitted, and len(last_full_text) has not decreased.
C31_DeltaEmitterInvariant ==
    [][spc = "streaming"
       => /\ SumLen(Deltas') = Len(last_full_text')
          /\ \A i \in DOMAIN Deltas' : Deltas'[i] # <<>>
          /\ has_content' <=> (Deltas' # <<>>)
          /\ Len(last_full_text') >= Len(last_full_text)]_vars

\* Two deltas were emitted, the second one after a snapshot that grew.
C31_Witness ==
    /\ spc = "streaming"
    /\ nlines = 2
    /\ Deltas = <<<<"x">>, <<"y">>>>
    /\ last_full_text = <<"x", "y">>
    /\ has_content

\* C32: for every resolve: a result with is_new carries no backend_uuid and
\* a turn_count of 0 or 1; a result without is_new carries a turn_count of at
\* least 1 and the thread_uuid the previous resolve of the same identifier
\* returned; and the returned thread_uuid, backend_uuid and turn_count are
\* those stored in the session when the call returns.
C32_ResolveResultMatchesSession ==
    [][clock' = clock + 1
       => LET r == last'.result
              cid == last'.cid
          IN /\ last'.op = "resolve"
             /\ r.is_new => (r.backend_uuid = None /\ r.turn_count \in {0, 1})
             /\ ~r.is_new => /\ r.turn_count >= 1
                             /\ resolved[cid] # 0
                             /\ r.thread_uuid = resolved[cid]
             /\ Has(conversations', cid)
             /\ Get(conversations', cid).thread_uuid = r.thread_uuid
             /\ Get(conversations', cid).backend_uuid = r.backend_uuid
             /\ Get(conversations', cid).turn_count = r.turn_count]_vars

\* A resolve continued a rotated thread on which a backend_uuid was stored.
C32_Witness ==
    /\ last.op = "resolve"
    /\ ~last.result.is_new
    /\ last.result.backend_uuid # None
    /\ last.result.thread_uuid > 1
    /\ last.result.thread_uuid = resolved[last.cid]
    /\ returned[last.result.thread_uuid].count >= 2

\* The lines the step took off the buffer.
NewLines == SubSeq(line_log', Len(line_log) + 1, Len(line_log'))

BeginsWithData(line) == line # <<>> /\ Head(line) = "data: "

\* C33: a pass of the loop in which every line taken off the buffer either
\* does not begin with "data: " or is the "data: [DONE]" line emits no
\* frame and leaves last_full_text and has_content as they were.
C33_NoiseLeavesStreamStateUntouched ==
    [][(/\ spc = "streaming"
        /\ delivered' > delivered
        /\ \A i \in DOMAIN NewLines :
              \/ ~BeginsWithData(NewLines[i])
              \/ NewLines[i] = <<"data: ", "[DONE]">>)
       => UNCHANGED <<frames, last_full_text, has_content>>]_vars

\* C34: when the curl_cffi path has read a 200 response to its end, the
\* frames it emitted are those of the httpx path for the same body.
C34_TransportsEmitSameFrames ==
    (spc = "done" /\ exit_path = "end") => frames = HttpxFrames(body)

====
